---- MODULE Spec2Model ----
(* Model of openai_app.OpenAIClient, of the two entry points of           *)
(* openai_examples.py, main() (the demonstration run) and                 *)
(* interactive_chat() (the read-eval loop over a conversation list), and  *)
(* of a direct caller of the class as in the module docstring.            *)
(* Text is a sequence of one-character strings, so that str.strip and     *)
(* str.lower are computed and not assumed.                                *)
EXTENDS Integers, Sequences, FiniteSets, TLC

(* ---------------------------------------------------------------- bounds *)
MaxInputs == 3
MaxInputLen == 2

(* ------------------------------------------------------------------ text *)
Whitespace == {" ", "\t"}

Alphabet == {"Q", " "}

UpperToLower ==
  [c \in {"Q", "U", "I", "T", "E", "X", "C", "L", "A", "R"} |->
     CASE c = "Q" -> "q" [] c = "U" -> "u" [] c = "I" -> "i" [] c = "T" -> "t"
       [] c = "E" -> "e" [] c = "X" -> "x" [] c = "C" -> "c" [] c = "L" -> "l"
       [] c = "A" -> "a" [] c = "R" -> "r"]

LowerChar(c) == IF c \in DOMAIN UpperToLower THEN UpperToLower[c] ELSE c

LowerKeep(s) == s

Lower(s) == [i \in 1..Len(s) |-> LowerChar(s[i])]

RECURSIVE LStrip(_)
LStrip(s) ==
  IF s = <<>> THEN s
  ELSE IF Head(s) \in Whitespace THEN LStrip(Tail(s)) ELSE s

RECURSIVE RStrip(_)
RStrip(s) ==
  IF s = <<>> THEN s
  ELSE IF s[Len(s)] \in Whitespace THEN RStrip(SubSeq(s, 1, Len(s) - 1)) ELSE s

StripNothing(s) == s

Strip(s) == RStrip(LStrip(s))

(* Lines the console can deliver: every line over Alphabet up to          *)
(* MaxInputLen characters, and a fixed set of longer ones.                *)
ShortLines == UNION {[1..n -> Alphabet] : n \in 0..MaxInputLen}

LongLines ==
  { <<"q">>, <<"q","u","i","t">>, <<" ","Q","u","i","t">>,
    <<"e","x","i","t">>, <<"E","X","I","T"," ">>,
    <<"c","l","e","a","r">>, <<"C","L","E","A","R">>,
    <<"\t","c","L","e","a","R"," ">>,
    <<" ","\t"," ">>,
    <<" ","Q","u","i","t"," ","x"," ">> }

RawInputs == ShortLines \cup LongLines

Replies == { <<"o","k">>, <<>> }

(* ----------------------------------------------------------- credentials *)
None == "None"
KeyValues == {None, "", "sk-arg"}
EnvValues == {None, "", "sk-env"}

Truthy(v) == v # None /\ v # ""

ResolveKey(arg, env) == IF Truthy(arg) THEN arg ELSE env

KeyMissingNoneOnly(k) == k = None

KeyMissing(k) == ~Truthy(k)

(* ----------------------------------------------------------------- turns *)
SystemTurn == [role |-> "system", content |-> <<"You are a helpful assistant.">>]
TutorTurn == [role |-> "system", content |-> <<"You are a knowledgeable tutor.">>]
UserTurn(text) == [role |-> "user", content |-> text]

AssistantTurnAsUser(text) == [role |-> "user", content |-> text]

AssistantTurn(text) == [role |-> "assistant", content |-> text]

InitialConversation == <<SystemTurn>>

ClearedKeepsHistory(conv) == conv

ClearedConversation(conv) == <<SystemTurn>>

QuitCommands == { <<"q","u","i","t">>, <<"e","x","i","t">>, <<"q">> }
ClearCommand == <<"c","l","e","a","r">>

IsQuit(u) == Lower(u) \in QuitCommands
IsClear(u) == Lower(u) = ClearCommand
IsBlank(u) == u = <<>>

NoRequest == [kind |-> "none"]

chat_completion_last_only(messages) ==
  [kind |-> "chat", model |-> "gpt-3.5-turbo",
   messages |-> <<messages[Len(messages)]>>,
   max_tokens |-> None, stream |-> FALSE]

chat_completion(messages) ==
  [kind |-> "chat", model |-> "gpt-3.5-turbo", messages |-> messages,
   max_tokens |-> None, stream |-> FALSE]

(* ----------------------------------------------------------------- state *)
VARIABLES
  mode,          \* "chat" (--chat), "demo" (no flag) or "library" (a caller of the class)
  arg_key,       \* the api_key argument given to OpenAIClient(...)
  env_key,       \* os.getenv('OPENAI_API_KEY')
  pc,            \* position of the process
  api_key,       \* OpenAIClient.api_key
  transport,     \* TRUE once OpenAIClient.client (the OpenAI object) exists
  conversation,  \* the conversation list; <<>> before it is created
  line,          \* the line last returned by input(), before strip()
  user_input,    \* the local user_input
  sent,          \* the request the process is blocked on
  output,        \* what the last print announced
  exit,          \* "running", "returned" or "uncaught"
  nReads,        \* lines read by input()
  nCalls,        \* remote operations invoked
  nSubmitted,    \* lines that reached conversation.append (line 134)
  nOk,           \* exchanges that succeeded
  nFail,         \* exchanges that failed
  failsSinceClear, \* exchanges that failed since the list was last created
  consecFails,   \* exchanges that failed since the last one that succeeded
  nClears        \* clear commands processed

vars == <<mode, arg_key, env_key, pc, api_key, transport, conversation, line,
          user_input, sent, output, exit, nReads, nCalls, nSubmitted, nOk,
          nFail, failsSinceClear, consecFails, nClears>>

config == <<mode, arg_key, env_key>>
client == <<api_key, transport>>
exchange == <<nSubmitted, nOk, nFail, failsSinceClear, consecFails, nClears>>

Init ==
  /\ mode \in {"chat", "demo", "library"}
  /\ env_key \in EnvValues
  /\ arg_key \in (IF mode = "library" THEN KeyValues ELSE {None})
  /\ pc = "init"
  /\ api_key = "unset"
  /\ transport = FALSE
  /\ conversation = <<>>
  /\ line = <<>>
  /\ user_input = <<>>
  /\ sent = NoRequest
  /\ output = "none"
  /\ exit = "running"
  /\ nReads = 0 /\ nCalls = 0 /\ nSubmitted = 0 /\ nOk = 0 /\ nFail = 0
  /\ failsSinceClear = 0 /\ consecFails = 0 /\ nClears = 0

(* ------------------------------------------------- OpenAIClient.__init__ *)
(* The constructor stores the key, raises ValueError when it is falsy and *)
(* only then builds the transport object.                                 *)
ConstructRaises == KeyMissing(ResolveKey(arg_key, env_key))

Construct ==
  /\ api_key' = ResolveKey(arg_key, env_key)
  /\ transport' = ~ConstructRaises

(* ------------------------------------------------------ interactive_chat *)
(* "except Exception" (lines 103, 141, 144) catches every exception class *)
(* the program meets except KeyboardInterrupt.                            *)
ExceptExceptionMissesValueError(e) == e \notin {"KeyboardInterrupt", "ValueError"}

ExceptException(e) == e # "KeyboardInterrupt"

Handled(e) == IF ExceptException(e) THEN "returned" ELSE "uncaught"

ChatStart ==
  /\ pc = "init" /\ mode = "chat"
  /\ Construct
  /\ IF ConstructRaises
       THEN /\ output' = IF ExceptException("ValueError") THEN "failed_init" ELSE output
            /\ pc' = "done"
            /\ exit' = Handled("ValueError")
            /\ UNCHANGED conversation
       ELSE /\ output' = "banner"
            /\ conversation' = InitialConversation
            /\ pc' = "read"
            /\ UNCHANGED exit
  /\ UNCHANGED <<config, line, user_input, sent, nReads, nCalls, exchange>>

Reading == pc = "read" /\ mode = "chat" /\ nReads < MaxInputs

Input(raw) ==
  /\ Reading
  /\ line' = raw
  /\ user_input' = Strip(raw)
  /\ nReads' = nReads + 1

Quit(raw) ==
  /\ Input(raw)
  /\ IsQuit(Strip(raw))
  /\ output' = "goodbye"
  /\ pc' = "done"
  /\ exit' = "returned"
  /\ UNCHANGED <<config, client, conversation, sent, nCalls, exchange>>

Clear(raw) ==
  /\ Input(raw)
  /\ ~IsQuit(Strip(raw))
  /\ IsClear(Strip(raw))
  /\ conversation' = ClearedConversation(conversation)
  /\ output' = "cleared"
  /\ nClears' = nClears + 1
  /\ failsSinceClear' = 0
  /\ UNCHANGED <<config, client, pc, sent, exit, nCalls, nSubmitted, nOk, nFail,
                 consecFails>>

Blank(raw) ==
  /\ Input(raw)
  /\ ~IsQuit(Strip(raw))
  /\ ~IsClear(Strip(raw))
  /\ IsBlank(Strip(raw))
  /\ UNCHANGED <<config, client, conversation, pc, sent, output, exit, nCalls,
                 exchange>>

SubmitPrepends(raw) ==
  /\ Input(raw)
  /\ ~IsQuit(Strip(raw))
  /\ ~IsClear(Strip(raw))
  /\ ~IsBlank(Strip(raw))
  /\ conversation' = <<UserTurn(Strip(raw))>> \o conversation
  /\ sent' = chat_completion(conversation')
  /\ nSubmitted' = nSubmitted + 1
  /\ nCalls' = nCalls + 1
  /\ pc' = "call"
  /\ UNCHANGED <<config, client, output, exit, nOk, nFail, failsSinceClear,
                 consecFails, nClears>>

Submit(raw) ==
  /\ Input(raw)
  /\ ~IsQuit(Strip(raw))
  /\ ~IsClear(Strip(raw))
  /\ ~IsBlank(Strip(raw))
  /\ conversation' = Append(conversation, UserTurn(Strip(raw)))
  /\ sent' = chat_completion(conversation')
  /\ nSubmitted' = nSubmitted + 1
  /\ nCalls' = nCalls + 1
  /\ pc' = "call"
  /\ UNCHANGED <<config, client, output, exit, nOk, nFail, failsSinceClear,
                 consecFails, nClears>>

ChatReplyNotRecorded(reply) ==
  /\ pc = "call" /\ mode = "chat"
  /\ output' = "assistant"
  /\ sent' = NoRequest
  /\ nOk' = nOk + 1
  /\ consecFails' = 0
  /\ pc' = "read"
  /\ UNCHANGED <<config, client, conversation, line, user_input, exit, nReads,
                 nCalls, nSubmitted, nFail, failsSinceClear, nClears>>

ChatReply(reply) ==
  /\ pc = "call" /\ mode = "chat"
  /\ conversation' = Append(conversation, AssistantTurn(reply))
  /\ output' = "assistant"
  /\ sent' = NoRequest
  /\ nOk' = nOk + 1
  /\ consecFails' = 0
  /\ pc' = "read"
  /\ UNCHANGED <<config, client, line, user_input, exit, nReads, nCalls,
                 nSubmitted, nFail, failsSinceClear, nClears>>

ChatErrorDropsTurn ==
  /\ pc = "call" /\ mode = "chat"
  /\ conversation' = SubSeq(conversation, 1, Len(conversation) - 1)
  /\ output' = "error"
  /\ sent' = NoRequest
  /\ nFail' = nFail + 1
  /\ failsSinceClear' = failsSinceClear + 1
  /\ consecFails' = consecFails + 1
  /\ pc' = "read"
  /\ UNCHANGED <<config, client, line, user_input, exit, nReads, nCalls,
                 nSubmitted, nOk, nClears>>

ChatError ==
  /\ pc = "call" /\ mode = "chat"
  /\ output' = "error"
  /\ sent' = NoRequest
  /\ nFail' = nFail + 1
  /\ failsSinceClear' = failsSinceClear + 1
  /\ consecFails' = consecFails + 1
  /\ pc' = "read"
  /\ UNCHANGED <<config, client, conversation, line, user_input, exit, nReads,
                 nCalls, nSubmitted, nOk, nClears>>

(* input() at end of file raises EOFError, which the handler of           *)
(* interactive_chat catches.                                              *)
EndOfInput ==
  /\ pc = "read" /\ mode = "chat"
  /\ output' = IF ExceptException("EOFError") THEN "failed_init" ELSE output
  /\ pc' = "done"
  /\ exit' = Handled("EOFError")
  /\ UNCHANGED <<config, client, conversation, line, user_input, sent, nReads,
                 nCalls, exchange>>

(* KeyboardInterrupt is not an Exception: neither handler catches it.     *)
Interrupt ==
  /\ pc \in {"read", "call"} /\ mode = "chat"
  /\ pc' = "done"
  /\ exit' = Handled("KeyboardInterrupt")
  /\ UNCHANGED <<config, client, conversation, line, user_input, sent, output,
                 nReads, nCalls, exchange>>

(* ------------------------------------------------------------------ main *)
DemoOperation ==
  [p \in {"ex1", "ex2", "ex3", "ex4", "ex6a", "ex6b"} |->
     CASE p = "ex3" -> "text_completion"
       [] p = "ex4" -> "get_embeddings"
       [] OTHER -> "chat_completion"]

DemoAfter(p) ==
  CASE p = "ex1" -> "ex2" [] p = "ex2" -> "ex3" [] p = "ex3" -> "ex4"
    [] p = "ex4" -> "ex6a" [] p = "ex6a" -> "ex6b" [] p = "ex6b" -> "done"

Question1 == UserTurn(<<"Can you explain what machine learning is?">>)
Question2 == UserTurn(<<"Can you give me a simple example?">>)

DemoStart ==
  /\ pc = "init" /\ mode = "demo"
  /\ Construct
  /\ IF ConstructRaises
       THEN /\ output' = IF ExceptException("ValueError") THEN "guidance" ELSE output
            /\ pc' = "done"
            /\ exit' = Handled("ValueError")
       ELSE /\ output' = "initialized"
            /\ pc' = "ex1"
            /\ UNCHANGED exit
  /\ UNCHANGED <<config, conversation, line, user_input, sent, nReads, nCalls,
                 exchange>>

InDemo == mode = "demo" /\ pc \in {"ex1", "ex2", "ex3", "ex4", "ex6a", "ex6b"}

DemoReply(reply) ==
  /\ InDemo
  /\ nCalls' = nCalls + 1
  /\ pc' = DemoAfter(pc)
  /\ conversation' =
       CASE pc = "ex4" -> <<TutorTurn, Question1>>
         [] pc = "ex6a" -> conversation \o <<AssistantTurn(reply), Question2>>
         [] OTHER -> conversation
  /\ output' = IF pc = "ex6b" THEN "completed" ELSE DemoOperation[pc]
  /\ exit' = IF pc = "ex6b" THEN "returned" ELSE exit
  /\ UNCHANGED <<config, client, line, user_input, sent, nReads, exchange>>

DemoError ==
  /\ InDemo
  /\ nCalls' = nCalls + 1
  /\ output' = IF ExceptException("ServiceError") THEN "guidance" ELSE output
  /\ pc' = "done"
  /\ exit' = Handled("ServiceError")
  /\ UNCHANGED <<config, client, conversation, line, user_input, sent, nReads,
                 exchange>>

(* --------------------------------- a caller of the class (module docstring) *)
LibraryStart ==
  /\ pc = "init" /\ mode = "library"
  /\ Construct
  /\ IF ConstructRaises
       THEN pc' = "done" /\ exit' = "uncaught"
       ELSE pc' = "lib" /\ UNCHANGED exit
  /\ UNCHANGED <<config, conversation, line, user_input, sent, output, nReads,
                 nCalls, exchange>>

LibraryCall(ok) ==
  /\ pc = "lib" /\ mode = "library"
  /\ nCalls' = nCalls + 1
  /\ output' = IF ok THEN output ELSE "error_in_chat_completion"
  /\ exit' = IF ok THEN "returned" ELSE "uncaught"
  /\ pc' = "done"
  /\ UNCHANGED <<config, client, conversation, line, user_input, sent, nReads,
                 exchange>>

(* ------------------------------------------------------------------ Next *)
Next ==
  \/ ChatStart
  \/ \E raw \in RawInputs : Quit(raw)
  \/ \E raw \in RawInputs : Clear(raw)
  \/ \E raw \in RawInputs : Blank(raw)
  \/ \E raw \in RawInputs : Submit(raw)
  \/ \E reply \in Replies : ChatReply(reply)
  \/ ChatError
  \/ EndOfInput
  \/ Interrupt
  \/ DemoStart
  \/ \E reply \in Replies : DemoReply(reply)
  \/ DemoError
  \/ LibraryStart
  \/ \E ok \in BOOLEAN : LibraryCall(ok)

Spec == Init /\ [][Next]_vars

(* ============================================================ properties *)
(* Vocabulary of the properties, written without Strip and Lower.         *)
Blanks == {" ", "\t"}

CasePairs ==
  { <<"q","Q">>, <<"u","U">>, <<"i","I">>, <<"t","T">>, <<"e","E">>,
    <<"x","X">>, <<"c","C">>, <<"l","L">>, <<"a","A">>, <<"r","R">> }

IsVariant(t, w) ==
  /\ Len(t) = Len(w)
  /\ \A i \in 1..Len(w) : t[i] = w[i] \/ <<w[i], t[i]>> \in CasePairs

\* the texts left of raw once its leading and trailing blanks are removed
Trims(raw) ==
  { SubSeq(raw, i, j) : <<i, j>> \in
      { ij \in (1..(Len(raw) + 1)) \X (0..Len(raw)) :
          /\ \A k \in 1..(ij[1] - 1) : raw[k] \in Blanks
          /\ \A k \in (ij[2] + 1)..Len(raw) : raw[k] \in Blanks
          /\ ij[1] <= ij[2] => (raw[ij[1]] \notin Blanks /\ raw[ij[2]] \notin Blanks)
          /\ ij[1] > ij[2] => ij[1] = ij[2] + 1 } }

Types(raw, w) == \E t \in Trims(raw) : IsVariant(t, w)

TypesQuit(raw) ==
  \/ Types(raw, <<"q","u","i","t">>)
  \/ Types(raw, <<"e","x","i","t">>)
  \/ Types(raw, <<"q">>)

TypesClear(raw) == Types(raw, <<"c","l","e","a","r">>)

TypesNothing(raw) == \A k \in 1..Len(raw) : raw[k] \in Blanks

TypesText(raw) == ~TypesQuit(raw) /\ ~TypesClear(raw) /\ ~TypesNothing(raw)

\* the step reads one line from the console
ReadsLine == mode = "chat" /\ nReads' = nReads + 1

Count(conv, r) == Cardinality({i \in 1..Len(conv) : conv[i].role = r})

Last(conv) == conv[Len(conv)]

IsPrefix(a, b) == Len(a) <= Len(b) /\ SubSeq(b, 1, Len(a)) = a

InFlight == IF sent # NoRequest THEN 1 ELSE 0

(* C1: in the interactive loop a line of text is appended as one user     *)
(* Turn holding the line without its surrounding blanks, and when the     *)
(* completion call then fails the transcript stays exactly that (no       *)
(* assistant Turn), the error is printed and the loop goes back to        *)
(* reading: the session stays Active.                                     *)
C1_FailureKeepsUserTurn ==
  [][ /\ (ReadsLine /\ TypesText(line')) =>
           /\ \E t \in Trims(line') : conversation' = Append(conversation, UserTurn(t))
           /\ pc' = "call"
      /\ (mode = "chat" /\ pc = "call" /\ nFail' = nFail + 1) =>
           /\ conversation' = conversation
           /\ Last(conversation').role = "user"
           /\ output' = "error"
           /\ pc' = "read"
           /\ exit' = "running" ]_vars

C1_Witness ==
  /\ mode = "chat" /\ pc = "read" /\ output = "error" /\ nFail = 1 /\ nOk = 1
  /\ line = <<" ","Q","u","i","t"," ","x"," ">>
  /\ Len(conversation) = 4
  /\ Last(conversation) = UserTurn(<<"Q","u","i","t"," ","x">>)

(* C2 as stated: whenever the loop waits for input, user Turns minus      *)
(* assistant Turns equals the number of consecutive failures since the    *)
(* last successful exchange (no clear involved).                          *)
C2_Original ==
  (mode = "chat" /\ pc = "read" /\ nClears = 0) =>
     Count(conversation, "user") - Count(conversation, "assistant") = consecFails

(* C2 amended: user Turns minus assistant Turns equals the number of      *)
(* failed exchanges since the transcript was created or last reset, plus  *)
(* one while a call is in flight; a later success does not close the gap. *)
C2_GapIsFailuresSinceReset ==
  (mode = "chat" /\ conversation # <<>>) =>
     Count(conversation, "user") - Count(conversation, "assistant")
       = failsSinceClear + InFlight

C2_Witness ==
  /\ mode = "chat" /\ pc = "read" /\ output = "assistant"
  /\ failsSinceClear = 1 /\ consecFails = 0 /\ nOk = 1
  /\ Count(conversation, "user") = 2 /\ Count(conversation, "assistant") = 1

(* C3 as stated: with no command typed, once N exchanges have succeeded   *)
(* the transcript has exactly N user Turns and N assistant Turns.         *)
C3_Original ==
  (mode = "chat" /\ pc = "read" /\ nClears = 0) =>
     /\ Count(conversation, "user") = nOk
     /\ Count(conversation, "assistant") = nOk

(* C3 amended: with no clear typed and no call in flight, once N          *)
(* exchanges have succeeded and F have failed the transcript has exactly  *)
(* N assistant Turns and N + F user Turns (N and N when none failed).     *)
C3_CountsAfterExchanges ==
  (mode = "chat" /\ conversation # <<>> /\ sent = NoRequest /\ nClears = 0) =>
     /\ Count(conversation, "assistant") = nOk
     /\ Count(conversation, "user") = nOk + nFail

C3_Witness ==
  /\ mode = "chat" /\ pc = "read" /\ nClears = 0 /\ nOk = 2 /\ nFail = 0
  /\ Count(conversation, "user") = 2 /\ Count(conversation, "assistant") = 2

(* C4: a clear command, whatever came before, leaves a transcript of      *)
(* exactly one Turn, the system Turn the session started with, makes no   *)
(* remote call and keeps the session Active.                              *)
C4_ClearRestoresSystemTurn ==
  [][ (ReadsLine /\ TypesClear(line')) =>
        /\ conversation' = <<conversation[1]>>
        /\ conversation'[1] = InitialConversation[1]
        /\ nCalls' = nCalls /\ sent' = NoRequest
        /\ pc' = "read" /\ exit' = "running" ]_vars

C4_Witness ==
  /\ mode = "chat" /\ pc = "read" /\ output = "cleared"
  /\ nOk = 1 /\ nFail = 1 /\ nClears = 1
  /\ conversation = <<SystemTurn>>

(* C5: the transcript of the interactive session always starts with the   *)
(* system Turn fixed at session start and holds no other system Turn;     *)
(* every step that is not a clear leaves the previous transcript as an    *)
(* unchanged prefix of the new one.                                       *)
C5_AppendOnly ==
  [][ mode = "chat" =>
        /\ conversation' # <<>> =>
             /\ conversation'[1] = InitialConversation[1]
             /\ \A i \in 2..Len(conversation') : conversation'[i].role # "system"
        /\ ~(ReadsLine /\ TypesClear(line')) => IsPrefix(conversation, conversation') ]_vars

C5_Witness ==
  /\ mode = "chat" /\ pc = "read" /\ nClears = 0 /\ nFail = 1 /\ nOk = 2
  /\ Len(conversation) = 6
  /\ conversation[1] = SystemTurn

(* C6: quit, exit, q and clear are recognised in any letter case and with *)
(* surrounding blanks: the first three end the session with the           *)
(* transcript untouched and no remote call, clear resets the transcript,  *)
(* and none of them is appended as a user Turn.                           *)
C6_CommandsAnyCase ==
  [][ /\ (ReadsLine /\ TypesQuit(line')) =>
           /\ pc = "read" /\ pc' = "done"
           /\ conversation' = conversation
           /\ nCalls' = nCalls /\ sent' = sent
           /\ nSubmitted' = nSubmitted
      /\ (ReadsLine /\ TypesClear(line')) =>
           /\ conversation' = <<conversation[1]>>
           /\ nCalls' = nCalls
           /\ nSubmitted' = nSubmitted ]_vars

C6_Witness ==
  /\ mode = "chat" /\ pc = "done" /\ output = "goodbye" /\ exit = "returned"
  /\ line = <<"E","X","I","T"," ">>
  /\ nClears = 1 /\ Len(conversation) = 2

(* C7: an empty or blank-only line leaves the transcript unchanged, makes *)
(* no remote call and leaves the session Active.                          *)
C7_BlankLineIgnored ==
  [][ (ReadsLine /\ TypesNothing(line')) =>
        /\ conversation' = conversation
        /\ nCalls' = nCalls /\ sent' = sent /\ sent = NoRequest
        /\ nSubmitted' = nSubmitted
        /\ pc' = "read" /\ exit' = "running" ]_vars

C7_Witness ==
  /\ mode = "chat" /\ pc = "read" /\ line = <<" ","\t"," ">>
  /\ nReads = 3 /\ nCalls = 2 /\ Len(conversation) = 4

NoCredential == ~Truthy(arg_key) /\ ~Truthy(env_key)

(* C8 as stated: without a credential the interactive mode and the        *)
(* demonstration run end with an uncaught failure.                        *)
C8_Original ==
  (mode \in {"chat", "demo"} /\ NoCredential /\ pc = "done") => exit = "uncaught"

(* C8 amended: without a credential the construction failure is caught by *)
(* the entry point's own handler, which prints its message and returns,   *)
(* so the process completes normally in both modes; and a failed remote   *)
(* call in interactive mode leaves the process running.                   *)
C8_ConfigFailureIsCaught ==
  [][ /\ (mode \in {"chat", "demo"} /\ NoCredential /\ pc = "init" /\ pc' # "init") =>
           /\ pc' = "done" /\ exit' = "returned"
           /\ output' = (IF mode = "chat" THEN "failed_init" ELSE "guidance")
      /\ (mode = "chat" /\ pc = "call" /\ nFail' = nFail + 1) =>
           (exit' = "running" /\ pc' = "read") ]_vars

C8_Witness ==
  /\ mode = "demo" /\ NoCredential /\ pc = "done"
  /\ exit = "returned" /\ output = "guidance" /\ nCalls = 0

(* C9: with no credential from the parameter or the environment the       *)
(* constructor fails before the transport object exists: no remote        *)
(* operation is invoked, and in interactive mode no line is read and no   *)
(* transcript is created.                                                 *)
C9_NoCredentialNoActivity ==
  (NoCredential /\ pc # "init") =>
     /\ pc = "done"
     /\ ~transport /\ nCalls = 0 /\ sent = NoRequest
     /\ nReads = 0 /\ conversation = <<>>

C9_Witness ==
  /\ mode = "chat" /\ arg_key = None /\ env_key = None /\ pc = "done"
  /\ ~transport /\ output = "failed_init"

(* C10: a request of the interactive loop carries the whole transcript,   *)
(* which then has at least two Turns, the system Turn first and the user  *)
(* Turn of the current line last; one remote call is made per line of     *)
(* text and none for any other line; a line is read only when no request  *)
(* is in flight.                                                          *)
C10_FullTranscriptOneCall ==
  [][ mode = "chat" =>
        /\ sent' # NoRequest =>
             /\ sent'.messages = conversation'
             /\ Len(conversation') >= 2
             /\ conversation'[1] = InitialConversation[1]
             /\ \E t \in Trims(line') : Last(conversation') = UserTurn(t)
        /\ nCalls' = nCalls + (IF ReadsLine /\ TypesText(line') THEN 1 ELSE 0)
        /\ ReadsLine => sent = NoRequest ]_vars

C10_Witness ==
  /\ mode = "chat" /\ pc = "call" /\ nCalls = 3 /\ nOk = 1 /\ nFail = 1
  /\ Len(sent.messages) = 5
  /\ Last(sent.messages) = UserTurn(<<"Q","Q">>)
  /\ line = <<"Q","Q">>

====
